---------------------------- MODULE Spec2Model ----------------------------
(***************************************************************************)
(* Model of the Sentinel product discovery-and-resolution functions of     *)
(* src/sentinel_download.py and src/sentinel_download_cdse.py.             *)
(*                                                                         *)
(* A Python str is modelled as a sequence of one-character strings, so     *)
(* that slicing, int(), str(), strftime padding, join and quote are        *)
(* computed character by character as the interpreter computes them.       *)
(* A call is one behaviour: from the idle state one function is applied to *)
(* an input drawn from a bounded set and its outcome (the value returned   *)
(* or the exception raised) is recorded.  The functions that compute are   *)
(* applied in one step; download_product_files and the two main functions  *)
(* run statement by statement, pc holding the statement they stand at.     *)
(***************************************************************************)
EXTENDS Integers, Sequences, FiniteSets, TLC

VARIABLES
    op,     \* the function called, "idle" before the call
    arg,    \* its arguments, and what its environment answered
    res,    \* its outcome: the value returned or the exception raised
    sent,   \* the HTTP request it issued: its query parameters, <<>> if none
    pc,     \* the statement a call that runs in steps stands at
    locals, \* the local variables of the calls that run in steps
    iter,   \* the position of the iterator of `for file_key in file_keys`
    steps,  \* the steps main began and how each ended, in order
    transfers \* the download_file calls begun and how each ended, in order

\* The state of the calls that run in steps
running == <<pc, locals, iter, steps, transfers>>

vars == <<op, arg, res, sent, pc, locals, iter, steps, transfers>>

-----------------------------------------------------------------------------
(* Outcomes of a call *)

Return(v) == [kind |-> "return", value |-> v]

Raise(t, m) == [kind |-> "raise", type |-> t, msg |-> m]

Returned == res.kind = "return"

Raised == res.kind = "raise"

-----------------------------------------------------------------------------
(* Python str primitives on character sequences *)

Digits == <<"0", "1", "2", "3", "4", "5", "6", "7", "8", "9">>

DigitSet == {Digits[i] : i \in 1..10}

Min(a, b) == IF a < b THEN a ELSE b

\* s[a:b] for 0 <= a <= b: never fails, silently clips at the end of s
Slice(s, a, b) ==
    IF a >= Min(b, Len(s)) THEN <<>> ELSE SubSeq(s, a + 1, Min(b, Len(s)))

DigitVal(c) == (CHOOSE i \in 1..10 : Digits[i] = c) - 1

\* int(s) accepts s when it is a non-empty run of decimal digits (sign,
\* blanks and digit-group underscores do not occur in the strings drawn here:
\* an underscore is only accepted between two digits, and the slices
\* converted are at most two characters long)
IsIntLiteral(s) == Len(s) > 0 /\ \A i \in 1..Len(s) : s[i] \in DigitSet

RECURSIVE IntOfStr(_)
IntOfStr(s) ==
    IF Len(s) = 0 THEN 0
    ELSE 10 * IntOfStr(SubSeq(s, 1, Len(s) - 1)) + DigitVal(s[Len(s)])

\* str(n) for n >= 0
RECURSIVE StrOfInt(_)
StrOfInt(n) ==
    IF n < 10 THEN <<Digits[n + 1]>>
    ELSE StrOfInt(n \div 10) \o <<Digits[(n % 10) + 1]>>

INVALID_LITERAL == "invalid literal for int() with base 10"

-----------------------------------------------------------------------------
(* TilePathResolver: construct_s3_path *)

TilesPrefix == <<"t", "i", "l", "e", "s", "/">>

construct_s3_path_nostrip(product_title) ==
    LET tile_id       == Slice(product_title, 38, 44)
        utm_zone      == Slice(tile_id, 1, 3)
        latitude_band == Slice(tile_id, 3, 4)
        square        == Slice(tile_id, 4, 6)
        date_part     == Slice(product_title, 11, 19)
        year          == Slice(date_part, 0, 4)
        month_s       == Slice(date_part, 4, 6)
        day_s         == Slice(date_part, 6, 8)
    IN  IF ~IsIntLiteral(month_s) \/ ~IsIntLiteral(day_s)
        THEN Raise("ValueError", INVALID_LITERAL)
        ELSE Return(TilesPrefix \o utm_zone \o <<"/">> \o latitude_band \o <<"/">>
                    \o square \o <<"/">> \o year \o <<"/">>
                    \o month_s \o <<"/">> \o day_s \o <<"/">>)

construct_s3_path(product_title) ==
    LET tile_id       == Slice(product_title, 38, 44)
        utm_zone      == Slice(tile_id, 1, 3)
        latitude_band == Slice(tile_id, 3, 4)
        square        == Slice(tile_id, 4, 6)
        date_part     == Slice(product_title, 11, 19)
        year          == Slice(date_part, 0, 4)
        month_s       == Slice(date_part, 4, 6)
        day_s         == Slice(date_part, 6, 8)
    IN  IF ~IsIntLiteral(month_s)
        THEN Raise("ValueError", INVALID_LITERAL)
        ELSE IF ~IsIntLiteral(day_s)
        THEN Raise("ValueError", INVALID_LITERAL)
        ELSE LET month == StrOfInt(IntOfStr(month_s))
                 day   == StrOfInt(IntOfStr(day_s))
             IN  Return(TilesPrefix \o utm_zone \o <<"/">> \o latitude_band \o <<"/">>
                        \o square \o <<"/">> \o year \o <<"/">>
                        \o month \o <<"/">> \o day \o <<"/">>)

\* Product titles of the documented grammar
\* S2X_MSIL2A_YYYYMMDDTHHMMSS_NXXXX_RXXX_TXXXXX_YYYYMMDDTHHMMSS
TitleHead == <<"S", "2", "A", "_", "M", "S", "I", "L", "2", "A", "_">>

TitleMid == <<"T", "1", "0", "3", "4", "2", "1", "_",
              "N", "0", "5", "1", "1", "_",
              "R", "0", "0", "8", "_", "T">>

TitleTail == <<"_", "2", "0", "2", "5", "0", "1", "0", "1",
               "T", "1", "2", "3", "4", "5", "6">>

SampleYears == {<<"2", "0", "2", "5">>, <<"2", "0", "1", "9">>}

SampleMonths == {<<"0", "1">>, <<"0", "4">>, <<"1", "0">>, <<"1", "2">>}

SampleDays == {<<"0", "1">>, <<"0", "9">>, <<"1", "0">>, <<"3", "1">>}

SampleZones == {<<"3", "0">>, <<"0", "5">>}

SampleBands == {<<"U">>, <<"S">>}

SampleSquares == {<<"X", "C">>, <<"U", "G">>}

GrammarTitles ==
    {TitleHead \o y \o m \o d \o TitleMid \o z \o b \o s \o TitleTail :
        y \in SampleYears, m \in SampleMonths, d \in SampleDays,
        z \in SampleZones, b \in SampleBands, s \in SampleSquares}

ExampleTitle ==
    TitleHead \o <<"2", "0", "2", "5", "0", "1", "0", "1">> \o TitleMid
        \o <<"3", "0", "U", "X", "C">> \o TitleTail

\* Titles handed to the resolver: the grammar's titles and every truncation
Titles == {Slice(t, 0, n) : t \in GrammarTitles, n \in 0..60}

\* The title matches the product grammar in the fields the resolver reads
MatchesGrammar(t) ==
    /\ Len(t) = 60
    /\ Slice(t, 0, 11) = TitleHead
    /\ \A i \in 12..19 : t[i] \in DigitSet
    /\ t[39] = "T"
    /\ \A i \in 40..41 : t[i] \in DigitSet
    /\ \A i \in 42..44 : t[i] \notin DigitSet \cup {"_"}

-----------------------------------------------------------------------------
(* ProductSelector: select_best_product *)

\* A missing cloud cover (None, stored by pandas as NaN)
NaN == -1

\* None where it is not a cloud cover (product_type = None, as the
\* producttype cell holds it)
None == "None"

isna(v) == v = NaN

MaxProducts == 4

CloudValues == {0, 10, 40, NaN}

ProductDigit(i) == Digits[(i % 10) + 1]

\* The frame built from a list of cloud covers: row i carries the RangeIndex
\* label i, its own uuid and its own title
FrameOf(clouds) ==
    [i \in 1..Len(clouds) |->
        [uuid  |-> <<"u", "-", ProductDigit(i)>>,
         title |-> <<"P", "_", ProductDigit(i)>>,
         cloudcoverpercentage |-> clouds[i]]]

ProductFrames ==
    {FrameOf(c) : c \in UNION {[1..n -> CloudValues] : n \in 0..MaxProducts}}

RowOrders(df) ==
    {p \in [1..Len(df) -> 1..Len(df)] :
        \A i, j \in 1..Len(df) : i # j => p[i] # p[j]}

Valued(df) == {i \in 1..Len(df) : ~isna(df[i].cloudcoverpercentage)}

sort_values_na_first(df) ==
    {p \in RowOrders(df) :
        \A i, j \in 1..Len(df) :
            i < j => df[p[i]].cloudcoverpercentage <= df[p[j]].cloudcoverpercentage}

\* DataFrame.sort_values('cloudcoverpercentage') with its defaults
\* ascending=True, kind='quicksort', na_position='last': the row orders it
\* can produce.  The rows with a value come first, ascending; quicksort is
\* not a stable sort, so rows with equal values come in any order.  The rows
\* without a value follow, in their original order.
sort_values(df) ==
    LET k == Cardinality(Valued(df))
    IN  {p \in RowOrders(df) :
            /\ \A i \in 1..k : p[i] \in Valued(df)
            /\ \A i, j \in 1..k :
                i < j => df[p[i]].cloudcoverpercentage <= df[p[j]].cloudcoverpercentage
            /\ \A i, j \in (k + 1)..Len(df) : i < j => p[i] < p[j]}

select_best_product_empty_none(products_df, sorted) ==
    IF Len(products_df) = 0
    THEN Return(<<None, None>>)
    ELSE LET best_product == products_df[sorted[1]]
         IN  Return(<<best_product.uuid, best_product.title>>)

\* select_best_product, for the row order `sorted` its sort produced
select_best_product(products_df, sorted) ==
    IF Len(products_df) = 0
    THEN Raise("IndexError", "single positional indexer is out-of-bounds")
    ELSE LET best_product == products_df[sorted[1]]
         IN  Return(<<best_product.uuid, best_product.title>>)

\* An empty frame may have no column at all (pd.DataFrame([]) has none), and
\* sort_values then fails on the column's name before iloc[0] is reached
NO_COLUMN == "cloudcoverpercentage"

SelectOutcomes(products_df, sorted) ==
    IF Len(products_df) = 0
    THEN {select_best_product(products_df, sorted), Raise("KeyError", NO_COLUMN)}
    ELSE {select_best_product(products_df, sorted)}

-----------------------------------------------------------------------------
(* FilterExpressionBuilder: format_date_for_cdse *)

\* A decimal number left-padded with zeros to a width, as strftime pads
RECURSIVE ZeroPad(_, _)
ZeroPad(n, width) ==
    IF width = 0 THEN <<>>
    ELSE ZeroPad(n \div 10, width - 1) \o <<Digits[(n % 10) + 1]>>

MidnightSuffix ==
    <<"T", "0", "0", ":", "0", "0", ":", "0", "0", ".", "0", "0", "0", "Z">>

\* date.strftime("%Y-%m-%dT00:00:00.000Z"), for the years 1000..9999
strftime_iso(d) ==
    ZeroPad(d.year, 4) \o <<"-">> \o ZeroPad(d.month, 2) \o <<"-">>
        \o ZeroPad(d.day, 2) \o MidnightSuffix

\* date.strftime("%Y%m%d")
strftime_ymd(d) == ZeroPad(d.year, 4) \o ZeroPad(d.month, 2) \o ZeroPad(d.day, 2)

UNSUPPORTED_DATE == "Unsupported date format"

format_date_for_cdse_unpadded(date_input) ==
    IF date_input.type = "str"
    THEN Return(Slice(date_input.v, 0, 4) \o <<"-">> \o Slice(date_input.v, 4, 6)
                \o <<"-">> \o Slice(date_input.v, 6, 8) \o MidnightSuffix)
    ELSE IF date_input.type \in {"date", "datetime"}
    THEN Return(StrOfInt(date_input.year) \o <<"-">> \o StrOfInt(date_input.month)
                \o <<"-">> \o StrOfInt(date_input.day) \o MidnightSuffix)
    ELSE Raise("ValueError", UNSUPPORTED_DATE)

\* date_input is a value tagged with its Python type: a str (v, its
\* characters), a date or datetime (its calendar fields), or another type
format_date_for_cdse(date_input) ==
    IF date_input.type = "str"
    THEN Return(Slice(date_input.v, 0, 4) \o <<"-">> \o Slice(date_input.v, 4, 6)
                \o <<"-">> \o Slice(date_input.v, 6, 8) \o MidnightSuffix)
    ELSE IF date_input.type \in {"date", "datetime"}
    THEN Return(strftime_iso(date_input))
    ELSE Raise("ValueError", UNSUPPORTED_DATE)

SampleDates ==
    [year : {2024, 2025}, month : {1, 4, 12}, day : {1, 9, 28}]

\* Strings handed in as dates: the 8-digit form of a day, its truncations,
\* the same followed by a time of day, and the hyphenated ISO form
SampleDateStrings ==
    {Slice(strftime_ymd(d), 0, n) : d \in SampleDates, n \in 0..8}
        \cup {strftime_ymd(d) \o <<"T", "1", "0", "3", "4", "2", "1">> : d \in SampleDates}
        \cup {ZeroPad(d.year, 4) \o <<"-">> \o ZeroPad(d.month, 2) \o <<"-">>
                \o ZeroPad(d.day, 2) : d \in SampleDates}

DateInputs ==
    {[type |-> "str", v |-> x] : x \in SampleDateStrings}
        \cup {[type |-> t, year |-> d.year, month |-> d.month, day |-> d.day] :
                t \in {"date", "datetime"}, d \in SampleDates}
        \cup {[type |-> "int", n |-> 10000 * d.year + 100 * d.month + d.day] :
                d \in SampleDates}
        \cup {[type |-> "NoneType"]}

-----------------------------------------------------------------------------
(* GeometryCodec: geojson_to_wkt *)

\* f"{n}" for an int n
FormatInt(n) == IF n < 0 THEN <<"-">> \o StrOfInt(-n) ELSE StrOfInt(n)

\* sep.join(parts)
RECURSIVE Join(_, _)
Join(sep, parts) ==
    IF Len(parts) = 0 THEN <<>>
    ELSE IF Len(parts) = 1 THEN parts[1]
    ELSE parts[1] \o sep \o Join(sep, Tail(parts))

ONLY_POLYGON == "Only Polygon geometry is supported"

LIST_INDEX == "list index out of range"

WktOpen == <<"P", "O", "L", "Y", "G", "O", "N", "(", "(">>

WktClose == <<")", ")">>

geojson_to_wkt_dedup(geojson) ==
    IF geojson.type # "Polygon"
    THEN Raise("ValueError", ONLY_POLYGON)
    ELSE IF Len(geojson.coordinates) = 0
    THEN Raise("IndexError", LIST_INDEX)
    ELSE LET coords == geojson.coordinates[1]
             kept   == SelectSeq([i \in 1..Len(coords) |-> <<i, coords[i]>>],
                                 LAMBDA e : e[1] = 1 \/ coords[e[1] - 1] # e[2])
             wkt_coords == Join(<<",", " ">>,
                                [i \in 1..Len(kept) |->
                                    FormatInt(kept[i][2][1]) \o <<" ">>
                                        \o FormatInt(kept[i][2][2])])
         IN  Return(WktOpen \o wkt_coords \o WktClose)

\* geojson is the dict with its 'type' and its 'coordinates', a list of rings
\* of [lon, lat] pairs (whole numbers here)
geojson_to_wkt(geojson) ==
    IF geojson.type # "Polygon"
    THEN Raise("ValueError", ONLY_POLYGON)
    ELSE IF Len(geojson.coordinates) = 0
    THEN Raise("IndexError", LIST_INDEX)
    ELSE LET coords == geojson.coordinates[1]
             wkt_coords == Join(<<",", " ">>,
                                [i \in 1..Len(coords) |->
                                    FormatInt(coords[i][1]) \o <<" ">>
                                        \o FormatInt(coords[i][2])])
         IN  Return(WktOpen \o wkt_coords \o WktClose)

MaxRingPoints == 3

MaxRings == 2

SamplePoints == {<<-1, 51>>, <<10, 0>>}

SampleRings == UNION {[1..n -> SamplePoints] : n \in 0..MaxRingPoints}

SampleGeometries ==
    [type : {"Polygon", "MultiPolygon"},
     coordinates : UNION {[1..n -> SampleRings] : n \in 0..MaxRings}]

-----------------------------------------------------------------------------
(* CatalogClient normalization: process_product_attributes *)

\* The scan of one row's attribute list from entry i on, cloud_cover and
\* product_type being what the entries before i left
RECURSIVE ScanFirstMatch(_, _, _, _)
ScanFirstMatch(attributes, i, cloud_cover, product_type) ==
    IF i > Len(attributes) THEN <<cloud_cover, product_type>>
    ELSE IF attributes[i].Name = "cloudCover" /\ cloud_cover = NaN
    THEN ScanFirstMatch(attributes, i + 1, attributes[i].Value, product_type)
    ELSE IF attributes[i].Name = "productType" /\ product_type = None
    THEN ScanFirstMatch(attributes, i + 1, cloud_cover, attributes[i].Value)
    ELSE ScanFirstMatch(attributes, i + 1, cloud_cover, product_type)

RECURSIVE ScanAttributes(_, _, _, _)
ScanAttributes(attributes, i, cloud_cover, product_type) ==
    IF i > Len(attributes) THEN <<cloud_cover, product_type>>
    ELSE IF attributes[i].Name = "cloudCover"
    THEN ScanAttributes(attributes, i + 1, attributes[i].Value, product_type)
    ELSE IF attributes[i].Name = "productType"
    THEN ScanAttributes(attributes, i + 1, cloud_cover, attributes[i].Value)
    ELSE ScanAttributes(attributes, i + 1, cloud_cover, product_type)

\* The row as the loop body leaves it
ProcessedRow(row, found) ==
    [Id |-> row.Id, Name |-> row.Name, ContentLength |-> row.ContentLength,
     Attributes |-> row.Attributes,
     cloudcoverpercentage |-> found[1],
     producttype |-> found[2],
     title |-> row.Name,
     uuid |-> row.Id,
     size |-> row.ContentLength]

\* The loop with cloud_cover and product_type set once before it instead of
\* at each row
RECURSIVE ProcessRowsCarrying(_, _, _)
ProcessRowsCarrying(products_df, i, found) ==
    IF i > Len(products_df) THEN <<>>
    ELSE LET now == ScanAttributes(products_df[i].Attributes, 1, found[1], found[2])
         IN  <<ProcessedRow(products_df[i], now)>>
                \o ProcessRowsCarrying(products_df, i + 1, now)

process_product_attributes_carrying(products_df) ==
    ProcessRowsCarrying(products_df, 1, <<NaN, None>>)

process_product_attributes(products_df) ==
    [idx \in 1..Len(products_df) |->
        ProcessedRow(products_df[idx],
                     ScanAttributes(products_df[idx].Attributes, 1, NaN, None))]

MaxAttributes == 3

MaxRows == 2

SampleAttributes ==
    {[Name |-> "cloudCover", Value |-> 10],
     [Name |-> "cloudCover", Value |-> 40],
     [Name |-> "productType", Value |-> "S2MSI2A"],
     [Name |-> "productType", Value |-> "S2MSI1C"],
     [Name |-> "orbitNumber", Value |-> 8]}

AttributeLists(most) == UNION {[1..n -> SampleAttributes] : n \in 0..most}

\* The lists of exactly `rows` attribute lists that hold at most `most`
\* entries between them
RECURSIVE ListsOfAttributeLists(_, _)
ListsOfAttributeLists(rows, most) ==
    IF rows = 0 THEN {<<>>}
    ELSE UNION {{<<l>> \o rest : rest \in ListsOfAttributeLists(rows - 1, most - Len(l))} :
                    l \in AttributeLists(most)}

\* The raw frame pd.DataFrame(data["value"]) of a list of attribute lists
RawFrameOf(lists) ==
    [i \in 1..Len(lists) |->
        [Id |-> <<"u", "-", ProductDigit(i)>>,
         Name |-> <<"P", "_", ProductDigit(i)>>,
         ContentLength |-> 1000 * i,
         Attributes |-> lists[i]]]

\* Raw frames of at most MaxRows rows and MaxAttributes attribute entries
RawFrames ==
    {RawFrameOf(l) :
        l \in UNION {ListsOfAttributeLists(n, MaxAttributes) : n \in 0..MaxRows}}

-----------------------------------------------------------------------------
(* FilterExpressionBuilder: build_odata_filter *)

\* The filter text is a sequence of pieces whose concatenation is the str:
\* a piece is one character of a value computed character by character (the
\* quoted area, a date), or a run of characters of a literal or of a name
\* passed through.  The parentheses and the " and " of the literals are
\* pieces of their own.

\* urllib.parse.quote of one character, for the reserved characters that
\* occur in a WKT text; letters, digits and _ . - ~ / are left as they are
PercentEncoded(c) ==
    IF c = " " THEN <<"%", "2", "0">>
    ELSE IF c = "(" THEN <<"%", "2", "8">>
    ELSE IF c = ")" THEN <<"%", "2", "9">>
    ELSE IF c = "," THEN <<"%", "2", "C">>
    ELSE <<c>>

\* quote(x): each character encoded in turn (computed half by half)
RECURSIVE quote(_)
quote(x) ==
    IF Len(x) = 0 THEN <<>>
    ELSE IF Len(x) = 1 THEN PercentEncoded(x[1])
    ELSE quote(SubSeq(x, 1, Len(x) \div 2))
            \o quote(SubSeq(x, (Len(x) \div 2) + 1, Len(x)))

AND == " and "

CloudCoverPart(max_cloud_cover) ==
    <<"Attributes/OData.CSC.DoubleAttribute/any", "(", "att:att/Name eq 'cloudCover'",
      AND, "att/OData.CSC.DoubleAttribute/Value le ">>
        \o FormatInt(max_cloud_cover) \o <<")">>

\* filter_parts as first assigned: the five parts every filter has
FilterParts(collection, area_wkt, start_date, end_date, product_type) ==
    LET area_encoded == quote(area_wkt)
    IN  <<(<<"Collection/Name eq '", collection, "'">>),
          (<<"OData.CSC.Intersects", "(", "area=geography'SRID=4326;">>
                \o area_encoded \o <<"'", ")">>),
          (<<"ContentDate/Start gt ">> \o start_date),
          (<<"ContentDate/Start lt ">> \o end_date),
          (<<"Attributes/OData.CSC.StringAttribute/any", "(",
             "att:att/Name eq 'productType'", AND,
             "att/OData.CSC.StringAttribute/Value eq '", product_type, "'", ")">>)>>

build_odata_filter_always_cloud(collection, area_wkt, start_date, end_date, product_type, max_cloud_cover) ==
    Join(<<AND>>,
         Append(FilterParts(collection, area_wkt, start_date, end_date, product_type),
                CloudCoverPart(max_cloud_cover)))

build_odata_filter(collection, area_wkt, start_date, end_date, product_type, max_cloud_cover) ==
    LET filter_parts ==
            FilterParts(collection, area_wkt, start_date, end_date, product_type)
    IN  IF collection = "SENTINEL-2"
        THEN Join(<<AND>>, Append(filter_parts, CloudCoverPart(max_cloud_cover)))
        ELSE Join(<<AND>>, filter_parts)

\* EXAMPLE_AOI_GEOJSON in whole degrees, and its WKT text
SampleAoi ==
    [type |-> "Polygon",
     coordinates |-> <<(<<(<<-1, 51>>), (<<-1, 52>>), (<<0, 52>>), (<<0, 51>>),
                          (<<-1, 51>>)>>)>>]

SampleAreas == {geojson_to_wkt(SampleAoi).value, WktOpen \o WktClose}

SampleCollections == {"SENTINEL-2", "SENTINEL-1", "SENTINEL-3", "LANDSAT-8"}

SampleProductTypes == {"S2MSI2A", "GRD"}

SampleCloudCeilings == {0, 30, 100}

SampleInstants ==
    {strftime_iso(d) : d \in {[year |-> 2025, month |-> 1, day |-> 1],
                               [year |-> 2025, month |-> 12, day |-> 28]}}

FilterInputs ==
    [collection : SampleCollections, area_wkt : SampleAreas,
     start_date : SampleInstants, end_date : SampleInstants,
     product_type : SampleProductTypes, max_cloud_cover : SampleCloudCeilings]

-----------------------------------------------------------------------------
(* CatalogClient: search_products and query_sentinel_products *)

NO_PRODUCTS == "No products found for the specified criteria."

API_REQUEST_FAILED == "API request failed"

DEFAULT_PRODUCT_TYPE == "S2MSI2A"

DEFAULT_MAX_CLOUD_COVER == 30

DEFAULT_MAX_RESULTS == 100

\* The first half of search_products, up to the request: the query
\* parameters it builds, or the exception of the date formatting.  a holds
\* the arguments area_wkt, start_date, end_date and collection; today is
\* what date.today() answers.
SearchRequest(a, today) ==
    LET end_date == IF a.end_date.type = "NoneType"
                    THEN [type |-> "str", v |-> strftime_ymd(today)]
                    ELSE a.end_date
        start_date_iso == format_date_for_cdse(a.start_date)
        end_date_iso   == format_date_for_cdse(end_date)
    IN  IF start_date_iso.kind = "raise" THEN start_date_iso
        ELSE IF end_date_iso.kind = "raise" THEN end_date_iso
        ELSE Return([filter  |-> build_odata_filter(a.collection, a.area_wkt,
                                                    start_date_iso.value,
                                                    end_date_iso.value,
                                                    DEFAULT_PRODUCT_TYPE,
                                                    DEFAULT_MAX_CLOUD_COVER),
                     orderby |-> "ContentDate/Start desc",
                     top     |-> DEFAULT_MAX_RESULTS,
                     count   |-> "true"])

\* The answer of the catalog to requests.get: the transport fails, or a
\* response arrives with its status and its JSON body, whose "value" entry
\* (when it has one) is the list of raw records
TransportFailed(response) == response.transport # "ok"

HttpFailed(response) == response.transport = "ok" /\ response.status >= 400

search_products_empty_ok(a, today, response) ==
    LET request == SearchRequest(a, today)
    IN  IF request.kind = "raise" THEN request
        ELSE IF TransportFailed(response) \/ HttpFailed(response)
        THEN Raise("ValueError", API_REQUEST_FAILED)
        ELSE Return(process_product_attributes(response.value))

search_products(a, today, response) ==
    LET request == SearchRequest(a, today)
    IN  IF request.kind = "raise" THEN request
        ELSE IF TransportFailed(response) \/ HttpFailed(response)
        THEN Raise("ValueError", API_REQUEST_FAILED)
        ELSE IF ~response.has_value \/ Len(response.value) = 0
        THEN Raise("ValueError", NO_PRODUCTS)
        ELSE Return(process_product_attributes(response.value))

SampleStartDates ==
    {[type |-> "str", v |-> <<"2", "0", "2", "5", "0", "1", "0", "1">>],
     [type |-> "int", n |-> 20250101]}

SampleEndDates ==
    {[type |-> "NoneType"],
     [type |-> "str", v |-> <<"2", "0", "2", "5", "0", "4", "0", "9">>],
     [type |-> "int", n |-> 20250409]}

SampleToday == [year |-> 2025, month |-> 12, day |-> 28]

SearchInputs ==
    {[area_wkt |-> geojson_to_wkt(SampleAoi).value, start_date |-> s, end_date |-> e,
      collection |-> c] :
        s \in SampleStartDates, e \in SampleEndDates,
        c \in {"SENTINEL-2", "SENTINEL-1"}}

NoResponse == [transport |-> "none"]

Responses ==
    {[transport |-> t] : t \in {"ConnectionError", "Timeout"}}
        \cup {[transport |-> "ok", status |-> st, has_value |-> FALSE, value |-> <<>>] :
                st \in {200, 401, 500}}
        \cup {[transport |-> "ok", status |-> 200, has_value |-> TRUE, value |-> v] :
                v \in RawFrames}

\* query_sentinel_products: api.query fails with the client library's
\* error, which is not caught, or answers the products found, which
\* api.to_dataframe turns into a frame
SENTINEL_API_ERROR == "HTTP status 500 Internal Server Error"

query_sentinel_products(answer) ==
    IF answer.outcome # "ok" THEN Raise("ServerError", SENTINEL_API_ERROR)
    ELSE IF Len(answer.products) = 0 THEN Raise("ValueError", NO_PRODUCTS)
    ELSE Return(answer.products)

HubAnswers ==
    {[outcome |-> "ServerError", products |-> <<>>]}
        \cup {[outcome |-> "ok", products |-> df] : df \in ProductFrames}

-----------------------------------------------------------------------------
(* ObjectStoreClient: download_product_files *)

MaxKeys == 3

\* S3 object keys; a list of keys may name a key twice
SampleKeys == {<<"t", "/", "a">>, <<"t", "/", "b">>}

KeyLists == UNION {[1..n -> SampleKeys] : n \in 0..MaxKeys}

SampleProductTitle == <<"P", "_", "1">>

\* output_dir: None, or the directory the caller names
SampleOutputDirs == {[type |-> "NoneType"], [type |-> "str", v |-> <<"o", "u", "t">>]}

\* file_key.split('/')[-1]
RECURSIVE LastPart(_)
LastPart(file_key) ==
    IF Len(file_key) = 0 \/ file_key[Len(file_key)] = "/" THEN <<>>
    ELSE LastPart(SubSeq(file_key, 1, Len(file_key) - 1)) \o <<file_key[Len(file_key)]>>

\* os.path.join(a, b) on POSIX
os_path_join(a, b) ==
    IF Len(b) > 0 /\ b[1] = "/" THEN b
    ELSE IF Len(a) = 0 \/ a[Len(a)] = "/" THEN a \o b
    ELSE a \o <<"/">> \o b

\* if output_dir is None: output_dir = f"./{product_title}"
OutputDir(product_title, output_dir) ==
    IF output_dir.type = "NoneType" THEN <<".", "/">> \o product_title ELSE output_dir.v

\* What os.makedirs(output_dir, exist_ok=True) and s3_client.download_file
\* answer: they return, or raise the error named
MakedirsAnswers == {"ok", "OSError"}

DownloadFileAnswers == {"ok", "ClientError"}

\* One entry of transfers: download_file was begun ("start") for the key at
\* position index of file_keys, or that call returned ("done") or raised
\* ("fail")
TransferEvent(ev, index, file_keys, output_dir) ==
    [ev |-> ev, index |-> index, file_key |-> file_keys[index],
     file_name |-> os_path_join(output_dir, LastPart(file_keys[index]))]

AfterDownloadFile_skip_failed(answer) == "for"

\* Where control goes when download_file has answered.  The call stands in
\* no try statement: when it returns the loop goes on to the next key, when
\* it raises the exception leaves the loop and the function.
AfterDownloadFile(answer) == IF answer = "ok" THEN "for" ELSE "raise"

-----------------------------------------------------------------------------
(* The steps the two main functions call besides the functions above *)

CREDENTIALS_UNSET == "Please set the username and the password"

\* setup_copernicus_api: configured says whether config.py holds a username
\* and a password
setup_copernicus_api(configured) ==
    IF ~configured THEN Raise("ValueError", CREDENTIALS_UNSET)
    ELSE Return("SentinelAPI")

TOKEN_REQUEST_FAILED == "Failed to get access token"

TOKEN_RESPONSE_INVALID == "Invalid response from token service - check credentials"

\* get_access_token: response is what the identity service answered to
\* requests.post
get_access_token(configured, response) ==
    IF ~configured THEN Raise("ValueError", CREDENTIALS_UNSET)
    ELSE IF TransportFailed(response) \/ HttpFailed(response)
    THEN Raise("ValueError", TOKEN_REQUEST_FAILED)
    ELSE IF ~response.has_token THEN Raise("ValueError", TOKEN_RESPONSE_INVALID)
    ELSE Return(response.access_token)

TokenResponses ==
    {[transport |-> "ConnectionError"],
     [transport |-> "ok", status |-> 401, has_token |-> FALSE, access_token |-> ""],
     [transport |-> "ok", status |-> 200, has_token |-> FALSE, access_token |-> ""],
     [transport |-> "ok", status |-> 200, has_token |-> TRUE, access_token |-> "token"]}

NO_FILES == "No files found at S3 path"

\* list_product_files: answer is what list_objects_v2 answered
list_product_files(answer) ==
    IF answer.outcome # "ok" THEN Raise("ClientError", "list_objects_v2")
    ELSE IF ~answer.has_contents THEN Raise("ValueError", NO_FILES)
    ELSE Return(answer.keys)

ListAnswers ==
    {[outcome |-> "ClientError", has_contents |-> FALSE, keys |-> <<>>],
     [outcome |-> "ok", has_contents |-> FALSE, keys |-> <<>>]}
        \cup {[outcome |-> "ok", has_contents |-> TRUE, keys |-> k] :
                k \in KeyLists \ {<<>>}}

DOWNLOAD_FAILED == "Download failed"

DownloadsDir == <<".", "/", "d", "o", "w", "n", "l", "o", "a", "d", "s">>

\* download_product_cdse as main calls it, with output_dir="./downloads" and
\* filename=f"{product_title}.zip": answer is how the streamed download
\* went.  An error of requests becomes a ValueError; an error of makedirs,
\* open or write is not caught.
download_product_cdse(product_title, answer) ==
    IF answer = "RequestException" THEN Raise("ValueError", DOWNLOAD_FAILED)
    ELSE IF answer = "OSError" THEN Raise("OSError", "open")
    ELSE Return(os_path_join(DownloadsDir, product_title \o <<".", "z", "i", "p">>))

DownloadAnswers == {"ok", "RequestException", "OSError"}

\* The frames the hub answers in a run of main: one or two products, whose
\* titles follow the product grammar or are cut short
PipelineTitles == {ExampleTitle, Slice(ExampleTitle, 0, 15)}

PipelineRows ==
    {[uuid |-> <<"u", "-", "1">>, title |-> t, cloudcoverpercentage |-> c] :
        t \in PipelineTitles, c \in {10, NaN}}

PipelineFrames == UNION {[1..n -> PipelineRows] : n \in 1..2}

PipelineHubAnswers ==
    {[outcome |-> "ServerError", products |-> <<>>],
     [outcome |-> "ok", products |-> <<>>]}
        \cup {[outcome |-> "ok", products |-> df] : df \in PipelineFrames}

\* search_products(access_token, area_wkt) as the CDSE main calls it: the
\* other arguments have their defaults
PipelineSearchInput ==
    [area_wkt |-> geojson_to_wkt(SampleAoi).value,
     start_date |-> [type |-> "str", v |-> <<"2", "0", "2", "5", "0", "1", "0", "1">>],
     end_date |-> [type |-> "NoneType"],
     collection |-> "SENTINEL-2"]

PipelineResponses ==
    {[transport |-> "Timeout"]}
        \cup {[transport |-> "ok", status |-> st, has_value |-> FALSE, value |-> <<>>] :
                st \in {200, 500}}
        \cup {[transport |-> "ok", status |-> 200, has_value |-> TRUE,
               value |-> RawFrameOf(l)] :
                l \in ListsOfAttributeLists(1, 1) \cup ListsOfAttributeLists(2, 1)}

\* The two main functions
HubMain == "sentinel_download.main"

CdseMain == "sentinel_download_cdse.main"

\* The entries of steps: main called the function `step`, and the call
\* returned ("ok") or raised ("fail")
Began(step) == [step |-> step, ev |-> "start"]

Ended(step, outcome) ==
    [step |-> step, ev |-> IF outcome.kind = "return" THEN "ok" ELSE "fail"]

AfterStep_go_on(outcome, next) == next

\* Where main goes when a call of its try block has ended: to the next
\* statement when it returned, to `except Exception` when it raised
AfterStep(outcome, next) == IF outcome.kind = "return" THEN next ELSE "except"

-----------------------------------------------------------------------------
(* The calls *)

Init ==
    /\ op = "idle"
    /\ arg = <<>>
    /\ res = [kind |-> "none"]
    /\ sent = <<>>
    /\ pc = "idle"
    /\ locals = <<>>
    /\ iter = 0
    /\ steps = <<>>
    /\ transfers = <<>>

Call_construct_s3_path ==
    /\ op = "idle"
    /\ \E t \in Titles :
        /\ op' = "construct_s3_path"
        /\ arg' = t
        /\ res' = construct_s3_path(t)
    /\ UNCHANGED <<sent, running>>

Call_select_best_product ==
    /\ op = "idle"
    /\ \E df \in ProductFrames :
        \E sorted \in sort_values(df) :
            /\ op' = "select_best_product"
            /\ arg' = df
            /\ res' \in SelectOutcomes(df, sorted)
    /\ UNCHANGED <<sent, running>>

Call_format_date_for_cdse ==
    /\ op = "idle"
    /\ \E date_input \in DateInputs :
        /\ op' = "format_date_for_cdse"
        /\ arg' = date_input
        /\ res' = format_date_for_cdse(date_input)
    /\ UNCHANGED <<sent, running>>

Call_geojson_to_wkt ==
    /\ op = "idle"
    /\ \E geojson \in SampleGeometries :
        /\ op' = "geojson_to_wkt"
        /\ arg' = geojson
        /\ res' = geojson_to_wkt(geojson)
    /\ UNCHANGED <<sent, running>>

Call_process_product_attributes ==
    /\ op = "idle"
    /\ \E products_df \in RawFrames :
        /\ op' = "process_product_attributes"
        /\ arg' = products_df
        /\ res' = Return(process_product_attributes(products_df))
    /\ UNCHANGED <<sent, running>>

Call_build_odata_filter ==
    /\ op = "idle"
    /\ \E a \in FilterInputs :
        /\ op' = "build_odata_filter"
        /\ arg' = a
        /\ res' = Return(build_odata_filter(a.collection, a.area_wkt, a.start_date,
                                            a.end_date, a.product_type,
                                            a.max_cloud_cover))
    /\ UNCHANGED <<sent, running>>

Call_search_products ==
    /\ op = "idle"
    /\ op' = "search_products"
    /\ \E a \in SearchInputs :
        LET request == SearchRequest(a, SampleToday)
        IN  IF request.kind = "raise"
            THEN /\ arg' = [call |-> a, today |-> SampleToday, response |-> NoResponse]
                 /\ res' = search_products(a, SampleToday, NoResponse)
                 /\ sent' = <<>>
            ELSE \E response \in Responses :
                    /\ arg' = [call |-> a, today |-> SampleToday, response |-> response]
                    /\ res' = search_products(a, SampleToday, response)
                    /\ sent' = request.value
    /\ UNCHANGED running

Call_query_sentinel_products ==
    /\ op = "idle"
    /\ \E answer \in HubAnswers :
        /\ op' = "query_sentinel_products"
        /\ arg' = answer
        /\ res' = query_sentinel_products(answer)
    /\ UNCHANGED <<sent, running>>

\* download_product_files ends with outcome: its caller has the outcome,
\* and when the caller is main, main goes on
Leave_download_product_files(outcome) ==
    IF op = "download_product_files"
    THEN /\ res' = outcome
         /\ pc' = "done"
         /\ UNCHANGED steps
    ELSE /\ steps' = Append(steps, Ended("download_product_files", outcome))
         /\ pc' = AfterStep(outcome, "completed")
         /\ UNCHANGED res

\* download_product_files is called: lines 218-219
Call_download_product_files ==
    /\ op = "idle"
    /\ \E file_keys \in KeyLists, output_dir \in SampleOutputDirs :
        /\ op' = "download_product_files"
        /\ arg' = [file_keys |-> file_keys, product_title |-> SampleProductTitle,
                   output_dir |-> output_dir]
        /\ locals' = [file_keys |-> file_keys,
                      output_dir |-> OutputDir(SampleProductTitle, output_dir)]
    /\ pc' = "makedirs"
    /\ UNCHANGED <<res, sent, iter, steps, transfers>>

\* os.makedirs(output_dir, exist_ok=True): line 221
makedirs ==
    /\ pc = "makedirs"
    /\ \E answer \in MakedirsAnswers :
        IF answer = "ok"
        THEN /\ pc' = "for"
             /\ iter' = 1
             /\ UNCHANGED <<res, steps>>
        ELSE /\ Leave_download_product_files(Raise(answer, "makedirs"))
             /\ UNCHANGED iter
    /\ UNCHANGED <<op, arg, sent, locals, transfers>>

\* for file_key in file_keys: the iterator has a next key, and download_file
\* is called for it: lines 225-233
for_file_key ==
    /\ pc = "for"
    /\ iter <= Len(locals.file_keys)
    /\ transfers' = Append(transfers,
                           TransferEvent("start", iter, locals.file_keys,
                                         locals.output_dir))
    /\ pc' = "download_file"
    /\ UNCHANGED <<op, arg, res, sent, locals, iter, steps>>

\* s3_client.download_file(...) answers: lines 229-233
download_file ==
    /\ pc = "download_file"
    /\ \E answer \in DownloadFileAnswers :
        /\ transfers' = Append(transfers,
                               TransferEvent(IF answer = "ok" THEN "done" ELSE "fail",
                                             iter, locals.file_keys, locals.output_dir))
        /\ IF AfterDownloadFile(answer) = "for"
           THEN /\ pc' = "for"
                /\ iter' = iter + 1
                /\ UNCHANGED <<res, steps>>
           ELSE /\ Leave_download_product_files(Raise(answer, "download_file"))
                /\ UNCHANGED iter
    /\ UNCHANGED <<op, arg, sent, locals>>

\* the iterator is exhausted: return output_dir, lines 235-236
return_output_dir ==
    /\ pc = "for"
    /\ iter > Len(locals.file_keys)
    /\ Leave_download_product_files(Return(locals.output_dir))
    /\ UNCHANGED <<op, arg, sent, locals, iter, transfers>>

\* A statement of main calls the function `here`, which ends with outcome;
\* bound holds the variables main assigns when the call returns
MainStep(main, here, outcome, next, bound) ==
    /\ op = main
    /\ pc = here
    /\ steps' = steps \o <<Began(here), Ended(here, outcome)>>
    /\ pc' = AfterStep(outcome, next)
    /\ locals' = IF outcome.kind = "return" THEN bound @@ locals ELSE locals
    /\ UNCHANGED <<op, arg, res, iter, transfers>>

\* sentinel_download.main is called and enters its try block
Call_main ==
    /\ op = "idle"
    /\ op' = HubMain
    /\ \E configured \in BOOLEAN : arg' = [configured |-> configured]
    /\ pc' = "setup_copernicus_api"
    /\ UNCHANGED <<res, sent, locals, iter, steps, transfers>>

\* Step 1: api = setup_copernicus_api()
main_setup_copernicus_api ==
    /\ LET outcome == setup_copernicus_api(arg.configured)
       IN  MainStep(HubMain, "setup_copernicus_api", outcome,
                    "create_area_of_interest", [api |-> "SentinelAPI"])
    /\ UNCHANGED sent

\* Step 2: footprint = create_area_of_interest(config.EXAMPLE_AOI)
main_create_area_of_interest ==
    /\ MainStep(HubMain, "create_area_of_interest", Return("footprint"),
                "query_sentinel_products", [footprint |-> "footprint"])
    /\ UNCHANGED sent

\* Step 3: products_df = query_sentinel_products(api, footprint)
main_query_sentinel_products ==
    /\ \E answer \in PipelineHubAnswers :
        LET outcome == query_sentinel_products(answer)
        IN  MainStep(HubMain, "query_sentinel_products", outcome,
                     "select_best_product", [products_df |-> answer.products])
    /\ UNCHANGED sent

\* Step 4: product_id, product_title = select_best_product(products_df)
main_select_best_product ==
    /\ op = HubMain
    /\ pc = "select_best_product"
    /\ \E sorted \in sort_values(locals.products_df) :
        \E outcome \in SelectOutcomes(locals.products_df, sorted) :
            MainStep(HubMain, "select_best_product", outcome, "setup_aws_s3_client",
                     IF outcome.kind = "return"
                     THEN [product_id |-> outcome.value[1],
                           product_title |-> outcome.value[2]]
                     ELSE <<>>)
    /\ UNCHANGED sent

\* Step 5: s3_client = setup_aws_s3_client()
main_setup_aws_s3_client ==
    /\ MainStep(HubMain, "setup_aws_s3_client", Return("s3"),
                "construct_s3_path", [s3_client |-> "s3"])
    /\ UNCHANGED sent

\* Step 6: s3_path = construct_s3_path(product_title)
main_construct_s3_path ==
    /\ op = HubMain
    /\ pc = "construct_s3_path"
    /\ LET outcome == construct_s3_path(locals.product_title)
       IN  MainStep(HubMain, "construct_s3_path", outcome, "list_product_files",
                    IF outcome.kind = "return" THEN [s3_path |-> outcome.value]
                    ELSE <<>>)
    /\ UNCHANGED sent

\* Step 6: file_keys = list_product_files(s3_client, s3_path)
main_list_product_files ==
    /\ \E answer \in ListAnswers :
        LET outcome == list_product_files(answer)
        IN  MainStep(HubMain, "list_product_files", outcome, "download_product_files",
                     [file_keys |-> answer.keys])
    /\ UNCHANGED sent

\* Step 7: download_product_files(s3_client, file_keys, product_title) is
\* called; it runs in the steps makedirs, for_file_key, download_file and
\* return_output_dir
main_download_product_files ==
    /\ op = HubMain
    /\ pc = "download_product_files"
    /\ steps' = Append(steps, Began("download_product_files"))
    /\ locals' = [output_dir |-> OutputDir(locals.product_title, [type |-> "NoneType"])]
                    @@ locals
    /\ pc' = "makedirs"
    /\ UNCHANGED <<op, arg, res, sent, iter, transfers>>

\* sentinel_download_cdse.main is called and enters its try block
Call_cdse_main ==
    /\ op = "idle"
    /\ op' = CdseMain
    /\ \E configured \in BOOLEAN : arg' = [configured |-> configured]
    /\ pc' = "get_access_token"
    /\ UNCHANGED <<res, sent, locals, iter, steps, transfers>>

\* Step 1: access_token = get_access_token()
cdse_main_get_access_token ==
    /\ \E response \in TokenResponses :
        LET outcome == get_access_token(arg.configured, response)
        IN  MainStep(CdseMain, "get_access_token", outcome, "search_products",
                     IF outcome.kind = "return" THEN [access_token |-> outcome.value]
                     ELSE <<>>)
    /\ UNCHANGED sent

\* Steps 2 and 3: area_wkt = config_cdse.EXAMPLE_AOI_WKT;
\* products_df = search_products(access_token, area_wkt)
cdse_main_search_products ==
    /\ \E response \in PipelineResponses :
        LET outcome == search_products(PipelineSearchInput, SampleToday, response)
        IN  MainStep(CdseMain, "search_products", outcome, "select_best_product",
                     IF outcome.kind = "return"
                     THEN [area_wkt |-> PipelineSearchInput.area_wkt,
                           products_df |-> outcome.value]
                     ELSE <<>>)
    /\ sent' = SearchRequest(PipelineSearchInput, SampleToday).value

\* Step 4: product_id, product_title = select_best_product(products_df)
cdse_main_select_best_product ==
    /\ op = CdseMain
    /\ pc = "select_best_product"
    /\ \E sorted \in sort_values(locals.products_df) :
        \E outcome \in SelectOutcomes(locals.products_df, sorted) :
            MainStep(CdseMain, "select_best_product", outcome, "download_product_cdse",
                     IF outcome.kind = "return"
                     THEN [product_id |-> outcome.value[1],
                           product_title |-> outcome.value[2]]
                     ELSE <<>>)
    /\ UNCHANGED sent

\* Step 5: downloaded_file = download_product_cdse(...)
cdse_main_download_product_cdse ==
    /\ op = CdseMain
    /\ pc = "download_product_cdse"
    /\ \E answer \in DownloadAnswers :
        LET outcome == download_product_cdse(locals.product_title, answer)
        IN  MainStep(CdseMain, "download_product_cdse", outcome, "completed",
                     IF outcome.kind = "return" THEN [downloaded_file |-> outcome.value]
                     ELSE <<>>)
    /\ UNCHANGED sent

\* The try block of either main ran to its end: main prints and returns
main_completed ==
    /\ op \in {HubMain, CdseMain}
    /\ pc = "completed"
    /\ res' = Return(None)
    /\ pc' = "done"
    /\ UNCHANGED <<op, arg, sent, locals, iter, steps, transfers>>

\* except Exception as e: main prints the error and returns
main_except ==
    /\ op \in {HubMain, CdseMain}
    /\ pc = "except"
    /\ res' = Return(None)
    /\ pc' = "done"
    /\ UNCHANGED <<op, arg, sent, locals, iter, steps, transfers>>

Next ==
    \/ Call_construct_s3_path
    \/ Call_select_best_product
    \/ Call_format_date_for_cdse
    \/ Call_geojson_to_wkt
    \/ Call_process_product_attributes
    \/ Call_build_odata_filter
    \/ Call_search_products
    \/ Call_query_sentinel_products
    \/ Call_download_product_files
    \/ makedirs
    \/ for_file_key
    \/ download_file
    \/ return_output_dir
    \/ Call_main
    \/ main_setup_copernicus_api
    \/ main_create_area_of_interest
    \/ main_query_sentinel_products
    \/ main_select_best_product
    \/ main_setup_aws_s3_client
    \/ main_construct_s3_path
    \/ main_list_product_files
    \/ main_download_product_files
    \/ Call_cdse_main
    \/ cdse_main_get_access_token
    \/ cdse_main_search_products
    \/ cdse_main_select_best_product
    \/ cdse_main_download_product_cdse
    \/ main_completed
    \/ main_except

Spec == Init /\ [][Next]_vars

-----------------------------------------------------------------------------
(* Properties of construct_s3_path *)

\* C3: a title shorter than 44 characters never yields a path: the call
\* fails, and with the resolver's typed error (the only typed error of the
\* source is ValueError).
C3_ShortTitleFails ==
    (op = "construct_s3_path" /\ Len(arg) < 44)
        => (Raised /\ res.type = "ValueError")

\* A decimal field with its leading zeros removed (at least one digit kept)
RECURSIVE StripLeadingZeros(_)
StripLeadingZeros(s) ==
    IF Len(s) > 1 /\ s[1] = "0" THEN StripLeadingZeros(Tail(s)) ELSE s

ExpectedPath(t) ==
    <<"t", "i", "l", "e", "s", "/", t[40], t[41], "/", t[42], "/", t[43], t[44], "/",
      t[12], t[13], t[14], t[15], "/">>
        \o StripLeadingZeros(<<t[16], t[17]>>) \o <<"/">>
        \o StripLeadingZeros(<<t[18], t[19]>>) \o <<"/">>

ExamplePath ==
    <<"t", "i", "l", "e", "s", "/", "3", "0", "/", "U", "/", "X", "C", "/",
      "2", "0", "2", "5", "/", "1", "/", "1", "/">>

-----------------------------------------------------------------------------
(* Properties of select_best_product *)

\* The row of the frame the call returned (uuids are unique in a frame)
BestRow == CHOOSE i \in 1..Len(arg) : arg[i].uuid = res.value[1]

\* C1: the selection is stable: on a non-empty list, no record earlier in
\* the input has the same cloud cover as the record returned.
C1_SelectBestStable ==
    (op = "select_best_product" /\ Len(arg) > 0)
        => /\ Returned
           /\ \A j \in 1..Len(arg) :
                j < BestRow =>
                    arg[j].cloudcoverpercentage # arg[BestRow].cloudcoverpercentage

\* C2: on a non-empty list the record returned has a cloud cover no greater
\* than that of any record with a value, and it has no cloud cover only when
\* no record of the input has one.
C2_SelectBestLowestNullLast ==
    (op = "select_best_product" /\ Len(arg) > 0)
        => /\ Returned
           /\ arg[BestRow].title = res.value[2]
           /\ IF \E j \in 1..Len(arg) : arg[j].cloudcoverpercentage # NaN
              THEN /\ arg[BestRow].cloudcoverpercentage # NaN
                   /\ \A j \in 1..Len(arg) :
                        arg[j].cloudcoverpercentage # NaN =>
                            arg[BestRow].cloudcoverpercentage
                                <= arg[j].cloudcoverpercentage
              ELSE arg[BestRow].cloudcoverpercentage = NaN

\* a record without cloud cover precedes records with one, and the record
\* with the lowest value, which is not the first with a value, is returned
C2_Witness ==
    /\ op = "select_best_product"
    /\ Len(arg) = 4
    /\ arg[1].cloudcoverpercentage = NaN
    /\ arg[2].cloudcoverpercentage = 40
    /\ arg[3].cloudcoverpercentage = 10
    /\ arg[4].cloudcoverpercentage = NaN
    /\ Returned
    /\ BestRow = 3

\* The errors the other steps raise on purpose are all ValueError, and the
\* hub client's is its own ServerError
OtherErrorTypes == {"ValueError", "ServerError"}

-----------------------------------------------------------------------------
(* Properties of format_date_for_cdse *)

IsDigits(x) == \A i \in 1..Len(x) : x[i] \in DigitSet

\* x reads YYYY-MM-DDT00:00:00.000Z
WellFormedInstant(x) ==
    /\ Len(x) = 24
    /\ IsDigits(SubSeq(x, 1, 4)) /\ x[5] = "-"
    /\ IsDigits(SubSeq(x, 6, 7)) /\ x[8] = "-"
    /\ IsDigits(SubSeq(x, 9, 10))
    /\ SubSeq(x, 11, 24) = MidnightSuffix

\* The instant of the calendar day (y, m, d), digit by digit
InstantOfDay(y, m, d) ==
    <<Digits[(y \div 1000) + 1], Digits[((y \div 100) % 10) + 1],
      Digits[((y \div 10) % 10) + 1], Digits[(y % 10) + 1], "-",
      Digits[(m \div 10) + 1], Digits[(m % 10) + 1], "-",
      Digits[(d \div 10) + 1], Digits[(d % 10) + 1]>> \o MidnightSuffix

EightDigitString == arg.type = "str" /\ Len(arg.v) = 8 /\ IsDigits(arg.v)

\* The parts of C9 about the accepted forms and the other types: an 8-digit
\* string and a date/time value of the same day both give that day's
\* instant, and an input of another type fails with the date error.
C9_AcceptedAndRejected ==
    op = "format_date_for_cdse"
        => /\ EightDigitString
                => res = Return(InstantOfDay(IntOfStr(SubSeq(arg.v, 1, 4)),
                                             IntOfStr(SubSeq(arg.v, 5, 6)),
                                             IntOfStr(SubSeq(arg.v, 7, 8))))
           /\ arg.type \in {"date", "datetime"}
                => res = Return(InstantOfDay(arg.year, arg.month, arg.day))
           /\ arg.type \notin {"str", "date", "datetime"}
                => res = Raise("ValueError", UNSUPPORTED_DATE)

\* C9 as stated: the accepted forms give the day's instant, another type
\* fails with the date error, and a string that is not 8 digits is not
\* turned into a malformed instant.
C9_NoMalformedInstant ==
    /\ C9_AcceptedAndRejected
    /\ (op = "format_date_for_cdse" /\ arg.type = "str" /\ ~EightDigitString)
            => (Returned => WellFormedInstant(res.value))

\* C9 amended: as above for the accepted forms and the other types; a string
\* is never rejected, whatever its length and characters: its characters
\* 0-3, 4-5 and 6-7 are placed around the hyphens, so that a string shorter
\* than 8 characters or with a non-digit among its first 8 gives a malformed
\* instant.
C9_StringsSlicedUnchecked ==
    /\ C9_AcceptedAndRejected
    /\ (op = "format_date_for_cdse" /\ arg.type = "str")
            => /\ Returned
               /\ res.value = Slice(arg.v, 0, 4) \o <<"-">> \o Slice(arg.v, 4, 6)
                                \o <<"-">> \o Slice(arg.v, 6, 8) \o MidnightSuffix
               /\ (Len(arg.v) < 8 \/ ~IsDigits(Slice(arg.v, 0, 8)))
                    => ~WellFormedInstant(res.value)

\* the hyphenated form of 1 January 2025, a string that is not 8 digits, has
\* been formatted: the call returned, and what it returned is no instant
C9_Witness ==
    /\ op = "format_date_for_cdse"
    /\ arg.type = "str"
    /\ arg.v = <<"2", "0", "2", "5", "-", "0", "1", "-", "0", "1">>
    /\ res = Return(<<"2", "0", "2", "5", "-", "-", "0", "-", "1", "-">> \o MidnightSuffix)

-----------------------------------------------------------------------------
(* Properties of geojson_to_wkt *)

\* The pieces of x between the occurrences of the character c
RECURSIVE SplitAt(_, _, _)
SplitAt(x, c, piece) ==
    IF Len(x) = 0 THEN <<piece>>
    ELSE IF x[1] = c THEN <<piece>> \o SplitAt(Tail(x), c, <<>>)
    ELSE SplitAt(Tail(x), c, Append(piece, x[1]))

ParseInt(x) == IF x[1] = "-" THEN 0 - IntOfStr(Tail(x)) ELSE IntOfStr(x)

StripBlank(x) == IF Len(x) > 0 /\ x[1] = " " THEN Tail(x) ELSE x

\* The coordinate pairs a WKT text POLYGON((lon lat, lon lat, ...)) lists
ParseWkt(x) ==
    LET inner == SubSeq(x, Len(WktOpen) + 1, Len(x) - Len(WktClose))
        items == IF Len(inner) = 0 THEN <<>> ELSE SplitAt(inner, ",", <<>>)
    IN  [i \in 1..Len(items) |->
            LET pair == SplitAt(StripBlank(items[i]), " ", <<>>)
            IN  <<ParseInt(pair[1]), ParseInt(pair[2])>>]

IsWkt(x) ==
    /\ Len(x) >= Len(WktOpen) + Len(WktClose)
    /\ SubSeq(x, 1, Len(WktOpen)) = WktOpen
    /\ SubSeq(x, Len(x) - Len(WktClose) + 1, Len(x)) = WktClose

\* C10: the conversion fails with the geometry error for every input that is
\* not a Polygon and for every Polygon with more than one ring; it returns
\* only for a Polygon with exactly one ring, and the text returned lists
\* that ring's coordinates in source order, none dropped or deduplicated.
C10_OnlySingleRingPolygon ==
    op = "geojson_to_wkt"
        => /\ (arg.type # "Polygon" \/ Len(arg.coordinates) > 1)
                => res = Raise("ValueError", ONLY_POLYGON)
           /\ Returned
                => /\ arg.type = "Polygon"
                   /\ Len(arg.coordinates) = 1
                   /\ IsWkt(res.value)
                   /\ ParseWkt(res.value) = arg.coordinates[1]

\* C10 amended: every input that is not a Polygon fails with the geometry
\* error; a Polygon with one or more rings is converted, further rings being
\* ignored and not rejected, and the text returned lists the first ring's
\* coordinates in source order, none dropped or deduplicated.
C10_ExteriorRingInSourceOrder ==
    op = "geojson_to_wkt"
        => /\ arg.type # "Polygon" => res = Raise("ValueError", ONLY_POLYGON)
           /\ (arg.type = "Polygon" /\ Len(arg.coordinates) > 0)
                => /\ Returned
                   /\ IsWkt(res.value)
                   /\ ParseWkt(res.value) = arg.coordinates[1]

\* a Polygon with two rings, the first of which repeats a point, has been
\* converted to the text of its first ring
C10_Witness ==
    /\ op = "geojson_to_wkt"
    /\ arg.type = "Polygon"
    /\ Len(arg.coordinates) = 2
    /\ arg.coordinates[1] = <<(<<-1, 51>>), (<<-1, 51>>), (<<10, 0>>)>>
    /\ arg.coordinates[2] # arg.coordinates[1]
    /\ res = Return(WktOpen \o <<"-", "1", " ", "5", "1", ",", " ", "-", "1", " ", "5", "1",
                                  ",", " ", "1", "0", " ", "0">> \o WktClose)

-----------------------------------------------------------------------------
(* Properties of process_product_attributes *)

\* The positions of the entries named name in an attribute list
Named(attributes, name) == {i \in 1..Len(attributes) : attributes[i].Name = name}

Lowest(S) == CHOOSE i \in S : \A j \in S : i <= j

Highest(S) == CHOOSE i \in S : \A j \in S : j <= i

C6_PerRecordNormalization ==
    op = "process_product_attributes"
        => /\ Returned
           /\ Len(res.value) = Len(arg)
           /\ \A r \in 1..Len(arg) :
                LET cc == Named(arg[r].Attributes, "cloudCover")
                    pt == Named(arg[r].Attributes, "productType")
                    out == res.value[r]
                IN  /\ IF cc = {} THEN out.cloudcoverpercentage = NaN
                       ELSE \E i \in cc :
                                out.cloudcoverpercentage = arg[r].Attributes[i].Value
                    /\ IF pt = {} THEN out.producttype = None
                       ELSE \E i \in pt : out.producttype = arg[r].Attributes[i].Value
                    /\ out.title = arg[r].Name
                    /\ out.uuid = arg[r].Id
                    /\ out.size = arg[r].ContentLength

\* a record with both entries is followed by a record with neither: the
\* first carries its two values and the second carries null for both
C6_Witness ==
    /\ op = "process_product_attributes"
    /\ Len(arg) = 2
    /\ arg[1].Attributes = <<[Name |-> "cloudCover", Value |-> 10],
                             [Name |-> "productType", Value |-> "S2MSI2A"]>>
    /\ arg[2].Attributes = <<>>
    /\ res.value[1].cloudcoverpercentage = 10
    /\ res.value[1].producttype = "S2MSI2A"
    /\ res.value[2].cloudcoverpercentage = NaN
    /\ res.value[2].producttype = None

-----------------------------------------------------------------------------
(* Properties of build_odata_filter *)

\* The number of parentheses open before piece i of a filter text
DepthBefore(x, i) ==
    Cardinality({j \in 1..(i - 1) : x[j] = "("})
        - Cardinality({j \in 1..(i - 1) : x[j] = ")"})

\* The " and " pieces that stand outside every pair of parentheses
TopLevelAnds(x) == {i \in 1..Len(x) : x[i] = AND /\ DepthBefore(x, i) = 0}

\* The clauses of a filter text: its parts between those " and "
TopLevelClauses(x) ==
    LET cuts == TopLevelAnds(x) \cup {0, Len(x) + 1}
        nth(k) == CHOOSE c \in cuts : Cardinality({d \in cuts : d < c}) = k
    IN  [k \in 1..(Cardinality(cuts) - 1) |->
            IF nth(k - 1) + 1 > nth(k) - 1 THEN <<>>
            ELSE SubSeq(x, nth(k - 1) + 1, nth(k) - 1)]

\* What a clause constrains, read from the text it starts with
ClauseKind(clause) ==
    IF clause[1] = "Collection/Name eq '" THEN "collection"
    ELSE IF clause[1] = "OData.CSC.Intersects" THEN "intersects"
    ELSE IF clause[1] = "ContentDate/Start gt " THEN "start"
    ELSE IF clause[1] = "ContentDate/Start lt " THEN "end"
    ELSE IF Len(clause) > 2 /\ clause[3] = "att:att/Name eq 'productType'"
    THEN "product type"
    ELSE IF Len(clause) > 2 /\ clause[3] = "att:att/Name eq 'cloudCover'"
    THEN "cloud cover"
    ELSE "other"

FiveKinds == <<"collection", "intersects", "start", "end", "product type">>

\* C8: the filter is the AND-join of 5 or 6 clauses in the order collection,
\* intersection, start, end, product type, cloud cover; it has 6 clauses
\* exactly when the collection is the one known to carry a cloud cover
\* (SENTINEL-2), and the cloud cover clause, when present, is the last.
C8_FiveOrSixClauses ==
    op = "build_odata_filter"
        => LET clauses == TopLevelClauses(res.value)
               kinds   == [i \in 1..Len(clauses) |-> ClauseKind(clauses[i])]
           IN  /\ Len(clauses) \in {5, 6}
               /\ Len(clauses) = 6 <=> arg.collection = "SENTINEL-2"
               /\ SubSeq(kinds, 1, 5) = FiveKinds
               /\ Len(clauses) = 6 => kinds[6] = "cloud cover"
               /\ \A i \in 1..Len(clauses) :
                    /\ Len(clauses[i]) > 0
                    /\ clauses[i][1] # AND
                    /\ clauses[i][Len(clauses[i])] # AND

\* the filter of the collection with cloud cover, its ceiling clause last
C8_Witness ==
    /\ op = "build_odata_filter"
    /\ arg.collection = "SENTINEL-2"
    /\ arg.max_cloud_cover = 30
    /\ Len(TopLevelClauses(res.value)) = 6
    /\ TopLevelClauses(res.value)[6] = CloudCoverPart(30)

-----------------------------------------------------------------------------
(* Properties of search_products and query_sentinel_products *)

\* The catalog was asked and answered without a single record
AnsweredNothing ==
    \/ /\ op = "search_products"
       /\ arg.response.transport = "ok"
       /\ arg.response.status < 400
       /\ (~arg.response.has_value \/ arg.response.value = <<>>)
    \/ /\ op = "query_sentinel_products"
       /\ arg.outcome = "ok"
       /\ arg.products = <<>>

\* The request failed in transport or with an HTTP error status
RequestFailed ==
    \/ /\ op = "search_products"
       /\ \/ arg.response.transport \in {"ConnectionError", "Timeout"}
          \/ arg.response.transport = "ok" /\ arg.response.status >= 400
    \/ /\ op = "query_sentinel_products"
       /\ arg.outcome # "ok"

\* C7: a search never returns an empty list: when the catalog answers zero
\* records (an empty or an absent value array) the call fails with the
\* empty-result error, which is not the error of a failed request.
C7_NeverEmptySuccess ==
    op \in {"search_products", "query_sentinel_products"}
        => /\ Returned => Len(res.value) > 0
           /\ AnsweredNothing
                => /\ res = Raise("ValueError", NO_PRODUCTS)
                   /\ res.msg # API_REQUEST_FAILED
           /\ RequestFailed
                => /\ Raised
                   /\ res # Raise("ValueError", NO_PRODUCTS)
                   /\ op = "search_products"
                        => res = Raise("ValueError", API_REQUEST_FAILED)

\* the request went out and the catalog answered an empty value array
C7_Witness ==
    /\ op = "search_products"
    /\ sent # <<>>
    /\ arg.response.transport = "ok"
    /\ arg.response.status = 200
    /\ arg.response.has_value
    /\ arg.response.value = <<>>
    /\ res = Raise("ValueError", NO_PRODUCTS)

-----------------------------------------------------------------------------
(* Properties of download_product_files *)

TransfersThat(ev) == {j \in 1..Len(transfers) : transfers[j].ev = ev}

\* C12: the keys are transferred one at a time in list order: the log of
\* transfers is start 1, end 1, start 2, end 2, ... ; a failed transfer is the
\* last entry of the log for ever, so no later key is started and the failed
\* key is not started again; the call then raises instead of returning; and a
\* call that returned has transferred every key of the list.
C12_SequentialAbortOnFailure ==
    /\ \A j \in 1..Len(transfers) :
        /\ j % 2 = 1 => /\ transfers[j].ev = "start"
                        /\ transfers[j].index = (j + 1) \div 2
                        /\ transfers[j].file_key = locals.file_keys[(j + 1) \div 2]
        /\ j % 2 = 0 => /\ transfers[j].ev \in {"done", "fail"}
                        /\ transfers[j].index = j \div 2
    /\ \A j \in TransfersThat("fail") : j = Len(transfers)
    /\ op = "download_product_files" =>
        /\ TransfersThat("fail") # {} => (pc = "done" /\ Raised)
        /\ Returned =>
            \A k \in 1..Len(arg.file_keys) :
                \E j \in TransfersThat("done") : transfers[j].index = k

\* of three keys the second failed: the call has ended, the third was
\* never started
C12_Witness ==
    /\ op = "download_product_files"
    /\ pc = "done"
    /\ Len(arg.file_keys) = 3
    /\ Len(transfers) = 4
    /\ transfers[4].ev = "fail"
    /\ Raised

-----------------------------------------------------------------------------
(* Properties of the two main functions *)

\* The functions each main calls, in the order of its statements
HubSteps ==
    <<"setup_copernicus_api", "create_area_of_interest", "query_sentinel_products",
      "select_best_product", "setup_aws_s3_client", "construct_s3_path",
      "list_product_files", "download_product_files">>

CdseSteps ==
    <<"get_access_token", "search_products", "select_best_product",
      "download_product_cdse">>

StepsOf(main) == IF main = HubMain THEN HubSteps ELSE CdseSteps

\* authentication, search, selection and transfer in each main
Authentication == {"setup_copernicus_api", "get_access_token"}

Search == {"query_sentinel_products", "search_products"}

Selection == {"select_best_product"}

Transfer == {"download_product_files", "download_product_cdse"}

Succeeded(kind) == \E j \in 1..Len(steps) : steps[j].step \in kind /\ steps[j].ev = "ok"

\* C13: in a run of either main the steps start in the order of its
\* statements (authentication, search, selection, path resolution and
\* listing where the main has them, transfer), each once and each but the
\* first right after the previous one succeeded; a step that failed is the
\* last entry of the log for ever, main being then in its handler or over;
\* and a transfer has begun only if authentication, search and selection
\* succeeded.
C13_StepsInOrderStopAtFirstFailure ==
    op \in {HubMain, CdseMain} =>
        /\ Len(steps) <= 2 * Len(StepsOf(op))
        /\ \A j \in 1..Len(steps) :
            /\ j % 2 = 1 => /\ steps[j] = Began(StepsOf(op)[(j + 1) \div 2])
                            /\ j > 1 => steps[j - 1].ev = "ok"
            /\ j % 2 = 0 => /\ steps[j].step = StepsOf(op)[j \div 2]
                            /\ steps[j].ev \in {"ok", "fail"}
            /\ steps[j].ev = "fail" => (j = Len(steps) /\ pc \in {"except", "done"})
        /\ ((\E j \in 1..Len(steps) : steps[j].step \in Transfer) \/ transfers # <<>>)
            => (Succeeded(Authentication) /\ Succeeded(Search) /\ Succeeded(Selection))

\* a run of main is over in which the path resolution failed: it was the
\* sixth step started, and neither listing nor transfer was started
C13_Witness ==
    /\ op = HubMain
    /\ pc = "done"
    /\ Len(steps) = 12
    /\ steps[12] = [step |-> "construct_s3_path", ev |-> "fail"]
    /\ transfers = <<>>

=============================================================================
